---- MODULE Spec2Model ----
(***************************************************************************)
(* A model of lazy_tensors::Literal (lazy_tensors/literal.cc): a value     *)
(* that owns a Shape and an at::Tensor allocated from it, with the         *)
(* accessor shape() and the structural hash Hash().                        *)
(*                                                                         *)
(* The program state is a small set of Literal variables (Slots), the      *)
(* tensor storage heap, and the fatal state a failed CHECK leaves the      *)
(* process in.  The history variables arg, shown and hashed record what    *)
(* each live value was constructed from and what its last shape() and      *)
(* Hash() calls returned.                                                  *)
(***************************************************************************)
EXTENDS Integers, Sequences, FiniteSets, TLC

\* Bounds of the model.
MaxRank == 2
MaxDim == 2
MaxWord == 1
MaxBlocks == 2

\* The program's Literal variables.
Slots == {"a", "b"}

\* at::ScalarType tags.
ScalarTypes == {"Float", "Int"}

\* Addresses of storage blocks, and the abstract contents of a block.
Blocks == 1..MaxBlocks
Words == 0..MaxWord

\* Shape::sizes(): an ordered sequence of dimension sizes.
Sizes == UNION {[1..n -> 0..MaxDim] : n \in 0..MaxRank}

\* A Shape as literal.cc observes it: IsTuple(), scalar_type(), sizes().
ArrayShapes == [is_tuple : {FALSE}, scalar_type : ScalarTypes, sizes : Sizes]
TupleShapes == [is_tuple : {TRUE}, scalar_type : ScalarTypes, sizes : {<< >>}]
AllShapes == ArrayShapes \cup TupleShapes

\* Absent values.
NoLiteral == [none |-> "literal"]
NoFatal == [none |-> "fatal"]
NoValue == [none |-> "value"]
FreeBlock == [none |-> "storage"]
\* An undefined at::Tensor (a default-constructed handle with no storage).
UndefinedTensor == 0

VARIABLES lit, heap, fatal, arg, shown, hashed

vars == <<lit, heap, fatal, arg, shown, hashed>>

----------------------------------------------------------------------------
\* The collaborators of literal.cc.

\* Shape::IsTuple()
IsTuple(shape) == shape.is_tuple

\* util::ToVector<int64_t>: an element-by-element copy into a vector.
ToVector(sizes) == [i \in 1..Len(sizes) |-> sizes[i]]

\* at::TensorOptions(scalar_type)
TensorOptions(scalar_type) == [dtype |-> scalar_type]

\* The number of elements of a tensor of the given dimensions.
RECURSIVE Numel(_)
Numel(dimensions) ==
    IF dimensions = << >> THEN 1
    ELSE Head(dimensions) * Numel(Tail(dimensions))

\* at::empty(dimensions, options): a storage block at the address blk the
\* allocator hands out, holding whatever the memory held (junk); a block of
\* no elements has no contents.
AtEmpty(dimensions, options, mem, blk, junk) ==
    [value |-> blk,
     mem |-> [mem EXCEPT ![blk] =
                 [dtype |-> options.dtype,
                  sizes |-> dimensions,
                  numel |-> Numel(dimensions),
                  data |-> IF Numel(dimensions) = 0 THEN 0 ELSE junk]]]

\* ShapeUtil::Hash: a deterministic hash of a shape's fields, of small width
\* so that different shapes do collide.
TypeCode(scalar_type) == IF scalar_type = "Float" THEN 6 ELSE 3

HashCombine(h, x) == (h * 31 + x + 1) % 64

RECURSIVE HashSizes(_, _)
HashSizes(h, sizes) ==
    IF sizes = << >> THEN h
    ELSE HashSizes(HashCombine(h, Head(sizes)), Tail(sizes))

ShapeUtilHash(shape) ==
    HashSizes(HashCombine(HashCombine(IF shape.is_tuple THEN 1 ELSE 0,
                                      TypeCode(shape.scalar_type)),
                          Len(shape.sizes)),
              shape.sizes)

----------------------------------------------------------------------------
\* literal.cc.  Each method is its outcome on the receiver self and the
\* storage heap mem: whether a CHECK failed, the returned value, and the
\* receiver and the heap it leaves.

\* CHECK(!shape.IsTuple()) failed: the process aborts.
NotTupleCheck == "CHECK(!IsTuple())"

CheckFailed(self, mem) ==
    [fatal |-> TRUE, check |-> NotTupleCheck, self |-> self, mem |-> mem]

----------------------------------------------------------------------------
\* Faulty variants of the constructor, used to test what the properties
\* below detect.

\* The member initialiser shape_(shape) left out: shape_ is a default Shape.
LiteralCtorDefaultShape(shape, mem, blk, junk) ==
    LET shape_ == [is_tuple |-> FALSE, scalar_type |-> "Float", sizes |-> << >>]
    IN  IF IsTuple(shape_) THEN CheckFailed(NoLiteral, mem)
        ELSE LET dimensions == ToVector(shape.sizes)
                 options == TensorOptions(shape.scalar_type)
                 t == AtEmpty(dimensions, options, mem, blk, junk)
             IN  [fatal |-> FALSE,
                  self |-> [shape_ |-> shape_, value_ |-> t.value],
                  mem |-> t.mem]

\* The guard left out.
LiteralCtorNoCheck(shape, mem, blk, junk) ==
    LET shape_ == shape
        dimensions == ToVector(shape.sizes)
        options == TensorOptions(shape.scalar_type)
        t == AtEmpty(dimensions, options, mem, blk, junk)
    IN  [fatal |-> FALSE,
         self |-> [shape_ |-> shape_, value_ |-> t.value],
         mem |-> t.mem]

\* The guard inverted: CHECK(shape_.IsTuple()).
LiteralCtorCheckInverted(shape, mem, blk, junk) ==
    LET shape_ == shape
    IN  IF ~IsTuple(shape_) THEN CheckFailed(NoLiteral, mem)
        ELSE LET dimensions == ToVector(shape.sizes)
                 options == TensorOptions(shape.scalar_type)
                 t == AtEmpty(dimensions, options, mem, blk, junk)
             IN  [fatal |-> FALSE,
                  self |-> [shape_ |-> shape_, value_ |-> t.value],
                  mem |-> t.mem]

\* The tensor options left out of the allocation: at::empty(dimensions).
LiteralCtorNoOptions(shape, mem, blk, junk) ==
    LET shape_ == shape
    IN  IF IsTuple(shape_) THEN CheckFailed(NoLiteral, mem)
        ELSE LET dimensions == ToVector(shape.sizes)
                 options == TensorOptions("Float")
                 t == AtEmpty(dimensions, options, mem, blk, junk)
             IN  [fatal |-> FALSE,
                  self |-> [shape_ |-> shape_, value_ |-> t.value],
                  mem |-> t.mem]

\* The storage of a live tensor of the same type and dimensions reused
\* instead of allocating.
LiteralCtorShared(shape, mem, blk, junk) ==
    LET shape_ == shape
    IN  IF IsTuple(shape_) THEN CheckFailed(NoLiteral, mem)
        ELSE LET dimensions == ToVector(shape.sizes)
                 options == TensorOptions(shape.scalar_type)
                 same == {b \in DOMAIN mem :
                             /\ mem[b] # FreeBlock
                             /\ mem[b].dtype = options.dtype
                             /\ mem[b].sizes = dimensions}
                 t == IF same # {}
                      THEN [value |-> CHOOSE b \in same : TRUE, mem |-> mem]
                      ELSE AtEmpty(dimensions, options, mem, blk, junk)
             IN  [fatal |-> FALSE,
                  self |-> [shape_ |-> shape_, value_ |-> t.value],
                  mem |-> t.mem]

\* The allocation moved before the guard.
LiteralCtorAllocFirst(shape, mem, blk, junk) ==
    LET shape_ == shape
        dimensions == ToVector(shape.sizes)
        options == TensorOptions(shape.scalar_type)
        t == AtEmpty(dimensions, options, mem, blk, junk)
    IN  IF IsTuple(shape_) THEN CheckFailed(NoLiteral, t.mem)
        ELSE [fatal |-> FALSE,
              self |-> [shape_ |-> shape_, value_ |-> t.value],
              mem |-> t.mem]

----------------------------------------------------------------------------
\* Literal::Literal(const Shape& shape)
LiteralCtor(shape, mem, blk, junk) ==
    LET shape_ == shape
    IN  IF IsTuple(shape_) THEN CheckFailed(NoLiteral, mem)
        ELSE LET dimensions == ToVector(shape.sizes)
                 options == TensorOptions(shape.scalar_type)
                 t == AtEmpty(dimensions, options, mem, blk, junk)
             IN  [fatal |-> FALSE,
                  self |-> [shape_ |-> shape_, value_ |-> t.value],
                  mem |-> t.mem]

\* const Shape& Literal::shape() const
LiteralShape(self, mem) ==
    [fatal |-> FALSE, ret |-> self.shape_, self |-> self, mem |-> mem]

\* Faulty variants of Hash().

\* The address of the storage mixed into the hash.
LiteralHashAddress(self, mem) ==
    LET hash_value == HashCombine(ShapeUtilHash(self.shape_), self.value_)
    IN  IF IsTuple(self.shape_)
        THEN CheckFailed(self, mem)
        ELSE [fatal |-> FALSE, ret |-> hash_value, self |-> self, mem |-> mem]

\* The contents of the storage mixed into the hash.
LiteralHashContents(self, mem) ==
    LET contents == IF self.value_ = UndefinedTensor THEN 0
                    ELSE mem[self.value_].data
        hash_value == HashCombine(ShapeUtilHash(self.shape_), contents)
    IN  IF IsTuple(self.shape_)
        THEN CheckFailed(self, mem)
        ELSE [fatal |-> FALSE, ret |-> hash_value, self |-> self, mem |-> mem]

\* The guard left out.
LiteralHashNoCheck(self, mem) ==
    [fatal |-> FALSE, ret |-> ShapeUtilHash(self.shape_),
     self |-> self, mem |-> mem]

\* The storage zero-filled before hashing.
LiteralHashZeroFill(self, mem) ==
    LET hash_value == ShapeUtilHash(self.shape_)
        zeroed == IF self.value_ = UndefinedTensor THEN mem
                  ELSE [mem EXCEPT ![self.value_].data = 0]
    IN  IF IsTuple(self.shape_)
        THEN CheckFailed(self, mem)
        ELSE [fatal |-> FALSE, ret |-> hash_value, self |-> self, mem |-> zeroed]

\* size_t Literal::Hash() const
LiteralHash(self, mem) ==
    LET hash_value == ShapeUtilHash(LiteralShape(self, mem).ret)
    IN  IF IsTuple(LiteralShape(self, mem).ret)
        THEN CheckFailed(self, mem)
        ELSE [fatal |-> FALSE, ret |-> hash_value, self |-> self, mem |-> mem]

----------------------------------------------------------------------------
\* The program.

Live(v) == lit[v] # NoLiteral

Running == fatal = NoFatal

\* The contents of v's storage (an undefined tensor has none).
Data(v) ==
    IF lit[v].value_ = UndefinedTensor THEN 0 ELSE heap[lit[v].value_].data

\* Whether v.Hash() has returned before and, at this or an earlier call, the
\* storage held other contents than at the call before it.
Rehashed(v) ==
    /\ hashed[v] # NoValue
    /\ (hashed[v].rehashed \/ hashed[v].data # Data(v))

Init ==
    /\ lit = [v \in Slots |-> NoLiteral]
    /\ heap = [b \in Blocks |-> FreeBlock]
    /\ fatal = NoFatal
    /\ arg = [v \in Slots |-> NoValue]
    /\ shown = [v \in Slots |-> NoValue]
    /\ hashed = [v \in Slots |-> NoValue]

\* Literal v(shape);
Construct(v, shape, blk, junk) ==
    /\ Running
    /\ ~Live(v)
    /\ heap[blk] = FreeBlock
    /\ LET r == LiteralCtor(shape, heap, blk, junk)
       IN  /\ heap' = r.mem
           /\ IF r.fatal
              THEN /\ fatal' = [op |-> "Construct", check |-> r.check,
                                  slot |-> v, shape |-> shape]
                   /\ UNCHANGED <<lit, arg>>
              ELSE /\ lit' = [lit EXCEPT ![v] = r.self]
                   /\ arg' = [arg EXCEPT ![v] = shape]
                   /\ UNCHANGED fatal
    /\ UNCHANGED <<shown, hashed>>

\* v.shape();
CallShape(v) ==
    /\ Running
    /\ Live(v)
    /\ LET r == LiteralShape(lit[v], heap)
       IN  /\ lit' = [lit EXCEPT ![v] = r.self]
           /\ heap' = r.mem
           /\ shown' = [shown EXCEPT ![v] = r.ret]
    /\ UNCHANGED <<fatal, arg, hashed>>

\* v.Hash();
CallHash(v) ==
    /\ Running
    /\ Live(v)
    /\ LET r == LiteralHash(lit[v], heap)
       IN  /\ lit' = [lit EXCEPT ![v] = r.self]
           /\ heap' = r.mem
           /\ IF r.fatal
              THEN /\ fatal' = [op |-> "Hash", check |-> r.check,
                                  slot |-> v, shape |-> lit[v].shape_]
                   /\ UNCHANGED hashed
              ELSE /\ hashed' = [hashed EXCEPT ![v] =
                                    [ret |-> r.ret,
                                     data |-> Data(v),
                                     rehashed |-> Rehashed(v)]]
                   /\ UNCHANGED fatal
    /\ UNCHANGED <<arg, shown>>

\* A write of the contents of v's storage.
WriteStorage(v, w) ==
    /\ Running
    /\ Live(v)
    /\ lit[v].value_ # UndefinedTensor
    /\ heap[lit[v].value_].numel > 0
    /\ heap' = [heap EXCEPT ![lit[v].value_].data = w]
    /\ UNCHANGED <<lit, fatal, arg, shown, hashed>>

\* v goes out of scope: its storage is released.
Destroy(v) ==
    /\ Running
    /\ Live(v)
    /\ lit' = [lit EXCEPT ![v] = NoLiteral]
    /\ heap' = [b \in Blocks |-> IF b = lit[v].value_ THEN FreeBlock ELSE heap[b]]
    /\ arg' = [arg EXCEPT ![v] = NoValue]
    /\ shown' = [shown EXCEPT ![v] = NoValue]
    /\ hashed' = [hashed EXCEPT ![v] = NoValue]
    /\ UNCHANGED fatal

Next ==
    \/ \E v \in Slots, shape \in AllShapes, blk \in Blocks, junk \in Words :
           Construct(v, shape, blk, junk)
    \/ \E v \in Slots : CallShape(v)
    \/ \E v \in Slots : CallHash(v)
    \/ \E v \in Slots, w \in Words : WriteStorage(v, w)
    \/ \E v \in Slots : Destroy(v)

Spec == Init /\ [][Next]_vars

----------------------------------------------------------------------------
\* Hash() as a function of its receiver.  No constructor of literal.cc yields
\* a Literal of tuple shape, so the guard of Hash() is exercised on receivers
\* drawn from every Literal the class's fields can represent: variable "a"
\* starts as such an object (of tuple shape with an undefined tensor, or of
\* array shape with its storage), and the program runs on from there.

Receiver == "a"

ReceiverBlock == CHOOSE b \in Blocks : \A c \in Blocks : b <= c

InitAny ==
    \E shape \in AllShapes, junk \in Words :
        LET t == AtEmpty(ToVector(shape.sizes), TensorOptions(shape.scalar_type),
                         [b \in Blocks |-> FreeBlock], ReceiverBlock, junk)
        IN  /\ lit = [v \in Slots |->
                        IF v # Receiver THEN NoLiteral
                        ELSE [shape_ |-> shape,
                              value_ |-> IF IsTuple(shape) THEN UndefinedTensor
                                         ELSE t.value]]
            /\ heap = IF IsTuple(shape) THEN [b \in Blocks |-> FreeBlock] ELSE t.mem
            /\ fatal = NoFatal
            /\ arg = [v \in Slots |-> NoValue]
            /\ shown = [v \in Slots |-> NoValue]
            /\ hashed = [v \in Slots |-> NoValue]

SpecAny == InitAny /\ [][Next]_vars

----------------------------------------------------------------------------
\* Properties.

\* The product of a sequence of dimension sizes, taken from the last.
RECURSIVE SizeProduct(_)
SizeProduct(sizes) ==
    IF Len(sizes) = 0 THEN 1
    ELSE SizeProduct(SubSeq(sizes, 1, Len(sizes) - 1)) * sizes[Len(sizes)]

\* The storage block of a live value.
Storage(v) == heap[lit[v].value_]

\* C1: constructing from a non-composite shape s succeeds, and shape() on the
\* value returns s (same rank, dimension sizes in order, scalar type), after
\* any sequence of shape(), Hash() and storage writes on it.
C1_ShapePreserved ==
    /\ fatal # NoFatal /\ fatal.op = "Construct" => fatal.shape \notin ArrayShapes
    /\ \A v \in Slots :
          /\ shown[v] # NoValue => shown[v] = arg[v]
          /\ arg[v] # NoValue =>
                /\ Live(v)
                /\ LiteralShape(lit[v], heap).ret = arg[v]

C1_Witness ==
    \E v \in Slots :
        /\ arg[v] = [is_tuple |-> FALSE, scalar_type |-> "Int", sizes |-> <<1, 2>>]
        /\ hashed[v] # NoValue
        /\ shown[v] = arg[v]

\* C2: two values constructed from shapes with the same rank, dimension sizes
\* and scalar type return the same hash, whatever storage each owns.
C2_EqualShapesEqualHashes ==
    \A v1 \in Slots, v2 \in Slots :
        (/\ hashed[v1] # NoValue
         /\ hashed[v2] # NoValue
         /\ arg[v1] = arg[v2])
        => hashed[v1].ret = hashed[v2].ret

C2_Witness ==
    \E v1 \in Slots, v2 \in Slots :
        /\ v1 # v2
        /\ hashed[v1] # NoValue
        /\ hashed[v2] # NoValue
        /\ arg[v1] = arg[v2]
        /\ lit[v1].value_ # lit[v2].value_
        /\ hashed[v1].data # hashed[v2].data
        /\ hashed[v1].ret = hashed[v2].ret

\* C3: a construction from a composite/tuple shape ends in the fatal state of
\* the failed guard and constructs no value (there is no error return).
C3_TupleConstructIsFatal ==
    /\ \A v \in Slots : Live(v) => arg[v] # NoValue /\ ~IsTuple(arg[v])
    /\ fatal # NoFatal /\ fatal.op = "Construct" =>
          /\ IsTuple(fatal.shape)
          /\ fatal.check = NotTupleCheck
          /\ ~Live(fatal.slot)
          /\ arg[fatal.slot] = NoValue

C3_Witness ==
    /\ fatal # NoFatal
    /\ fatal.op = "Construct"
    /\ IsTuple(fatal.shape)
    /\ \E v \in Slots : Live(v)

\* C4: Hash() on a value whose shape is composite/tuple ends in the same
\* fatal guard failure as construction and returns no hash to the caller.
C4_TupleHashIsFatal ==
    /\ \A v \in Slots :
          Live(v) /\ IsTuple(lit[v].shape_) =>
              /\ hashed[v] = NoValue
              /\ LiteralHash(lit[v], heap).fatal
              /\ LiteralHash(lit[v], heap).check =
                     LiteralCtor(lit[v].shape_, heap, ReceiverBlock, 0).check
    /\ fatal # NoFatal /\ fatal.op = "Hash" =>
          /\ IsTuple(fatal.shape)
          /\ fatal.check = NotTupleCheck
          /\ hashed[fatal.slot] = NoValue

C4_Witness ==
    /\ fatal # NoFatal
    /\ fatal.op = "Hash"
    /\ IsTuple(lit[fatal.slot].shape_)

\* C5: every Hash() call on a value returns what the call before it returned,
\* whatever was written into the value's storage in between.
C5_HashIgnoresContents ==
    [][\A v \in Slots :
          hashed[v] # NoValue /\ hashed'[v] # NoValue
              => hashed'[v].ret = hashed[v].ret]_vars

C5_Witness ==
    \E v \in Slots :
        /\ hashed[v] # NoValue
        /\ hashed[v].rehashed

\* C6: the storage allocated for a value constructed from a non-composite
\* shape s has s's scalar type and s's dimension sizes in order, and as many
\* elements as the product of those sizes (1 for rank 0, 0 with a zero size).
C6_StorageMatchesShape ==
    \A v \in Slots :
        arg[v] # NoValue =>
            /\ Live(v)
            /\ Storage(v) # FreeBlock
            /\ Storage(v).dtype = arg[v].scalar_type
            /\ Storage(v).sizes = arg[v].sizes
            /\ Storage(v).numel = SizeProduct(arg[v].sizes)
            /\ arg[v].sizes = << >> => Storage(v).numel = 1
            /\ (\E i \in 1..Len(arg[v].sizes) : arg[v].sizes[i] = 0)
                   => Storage(v).numel = 0

C6_Witness ==
    \E v1 \in Slots, v2 \in Slots :
        /\ arg[v1] = [is_tuple |-> FALSE, scalar_type |-> "Int", sizes |-> <<2, 2>>]
        /\ Storage(v1).numel = 4
        /\ arg[v2] = [is_tuple |-> FALSE, scalar_type |-> "Float", sizes |-> <<0, 2>>]
        /\ Storage(v2).numel = 0

\* C7: a shape() or Hash() call leaves every value's shape and tensor handle
\* and every storage block, contents included, as they were, and allocates
\* nothing.
C7_AccessorsHaveNoEffect ==
    [][(arg' = arg /\ (shown' # shown \/ hashed' # hashed))
          => lit' = lit /\ heap' = heap /\ fatal' = fatal]_vars

C7_Witness ==
    \E v \in Slots :
        /\ shown[v] # NoValue
        /\ hashed[v] # NoValue
        /\ Storage(v).numel > 0
        /\ Data(v) = MaxWord

\* C8: no two live values share a storage block, also when they were
\* constructed from the same shape; every live value's block is allocated.
C8_StorageNotShared ==
    \A v1 \in Slots, v2 \in Slots :
        Live(v1) /\ Live(v2) /\ v1 # v2 =>
            /\ lit[v1].value_ # lit[v2].value_
            /\ Storage(v1) # FreeBlock
            /\ Storage(v2) # FreeBlock

C8_Witness ==
    \E v1 \in Slots, v2 \in Slots :
        /\ v1 # v2
        /\ Live(v1)
        /\ Live(v2)
        /\ arg[v1] = arg[v2]
        /\ Storage(v1).numel > 0

\* C9: a successful construction allocates exactly one storage block and
\* changes nothing else; a construction that fails on a composite/tuple shape
\* allocates nothing.
C9_OneAllocation ==
    [][/\ (fatal = NoFatal /\ fatal' # NoFatal /\ fatal'.op = "Construct")
             => heap' = heap /\ lit' = lit
       /\ \A v \in Slots :
             (lit[v] = NoLiteral /\ lit'[v] # NoLiteral) =>
                 /\ Cardinality({b \in Blocks : heap'[b] # heap[b]}) = 1
                 /\ \A b \in Blocks : heap'[b] # heap[b] =>
                        /\ heap[b] = FreeBlock
                        /\ b = lit'[v].value_
                 /\ \A u \in Slots \ {v} : lit'[u] = lit[u]
                 /\ shown' = shown
                 /\ hashed' = hashed
                 /\ fatal' = fatal]_vars

C9_Witness ==
    /\ fatal # NoFatal
    /\ fatal.op = "Construct"
    /\ Cardinality({b \in Blocks : heap[b] # FreeBlock}) = 1
    /\ Cardinality({v \in Slots : Live(v)}) = 1

\* C10: every value that exists was constructed from a non-composite shape,
\* which it keeps; so the guard of Hash() never fails on it and Hash() returns
\* a hash.
C10_ValuesAreNeverTuples ==
    /\ [](/\ \A v \in Slots :
                /\ Live(v) <=> arg[v] # NoValue
                /\ Live(v) =>
                      /\ ~IsTuple(lit[v].shape_)
                      /\ ~LiteralHash(lit[v], heap).fatal
          /\ fatal # NoFatal => fatal.op # "Hash")
    /\ [][\A v \in Slots :
             lit[v] # NoLiteral /\ lit'[v] # NoLiteral
                 => lit'[v].shape_ = lit[v].shape_]_vars

C10_Witness ==
    \E v1 \in Slots, v2 \in Slots :
        /\ v1 # v2
        /\ hashed[v1] # NoValue
        /\ hashed[v2] # NoValue
        /\ hashed[v1].rehashed
        /\ shown[v2] # NoValue

====
